---- MODULE Spec2Model ----
(***************************************************************************)
(* value_pool: the arena ValuePool<T> (src/src/lib.rs).                    *)
(*                                                                         *)
(* A pool is the pair (store, open_indices) of struct ValuePool.  Every    *)
(* method is a pure operator from a pool (and its arguments) to a result   *)
(* record holding the pool afterwards, what the method returned and        *)
(* whether it panicked.  Every action is one call of one method; it also   *)
(* records the call in `last` (method, arguments, returned values and the  *)
(* pool before the call) so that a contract of a method is a predicate on  *)
(* the state right after the call.                                         *)
(*                                                                         *)
(* Option<X> is a sequence: None is <<>> and Some(x) is <<x>>.  Positions  *)
(* are the 0-based usize of ValueRef.index; store[i] of the code is        *)
(* store[i + 1] here.                                                      *)
(***************************************************************************)
EXTENDS Integers, Sequences, FiniteSets

\* Largest number of slots the backing Vec is allowed to grow to.
MaxSlots == 3

\* The values of T that callers store.
Values == {"a", "b"}

\* The positions callers pass: every position a store can have, and one past.
Refs == 0..MaxSlots

\* Largest number of handles of an AliveValuePool alive at once.
MaxHandles == MaxSlots

\* Largest number of items a caller hands to multi_push, multi_push_front
\* and multi_insert in one call.
MaxBatch == 2

\* Largest number of calls made on one DoubleLinkedList.
MaxCalls == 8

VARIABLES
    store,          \* ValuePool.store: Vec<Option<T>>
    open_indices,   \* ValuePool.open_indices: Vec<NonMaxUsize>
    panicked,       \* a call panicked (index out of bounds); the caller unwinds
    last,           \* the last call: method, arguments, results, pool before it
    net_pushes,     \* pushes performed minus values actually removed
    callbacks,      \* SmartValuePool: the callbacks the last call invoked
    alive,          \* AliveValuePool: the pool, its buffer and the live handles
    alive_last,     \* AliveValuePool: the last call and the state before it
    dll,            \* DoubleLinkedList: store (nodes), start, end
    dll_last        \* DoubleLinkedList: the last call, the list before it and
                    \* the number of calls so far

vars == <<store, open_indices, panicked, last, net_pushes, callbacks,
          alive, alive_last, dll, dll_last>>

None == <<>>

Some(x) == <<x>>

Last(s) == s[Len(s)]

Front(s) == SubSeq(s, 1, Len(s) - 1)

\* struct ValuePool { store, open_indices }
ValuePool(s, o) == [store |-> s, open_indices |-> o]

\* The pool the variables hold.
pool == ValuePool(store, open_indices)

\* What a call leaves behind: the pool, the returned Option<T>, the returned
\* position(s), the returned bool, and whether the call panicked.
Result(s, o, rv, rr, rb, pn) ==
    [store |-> s, open_indices |-> o, ret_val |-> rv, ret_ref |-> rr,
     ret_bool |-> rb, panic |-> pn]

\* ValuePool::new
new == ValuePool(<<>>, <<>>)

\* ValuePool::element_count: self.store.len() - self.open_indices.len()
element_count(p) == Len(p.store) - Len(p.open_indices)

\* ValuePool::is_empty
is_empty(p) == element_count(p) = 0

\* ValuePool::waiting_positions
waiting_positions(p) == Len(p.open_indices)

\* ValuePool::is_ref_in_bounce
is_ref_in_bounce(p, r) == r < Len(p.store)

\* ValuePool::get: self.store.get(i).and_then(|x| x.as_ref())
get(p, r) == IF r < Len(p.store) THEN p.store[r + 1] ELSE None

\* ValuePool::has_item
has_item(p, r) == get(p, r) # None

\* ValuePool::next_push_ref
next_push_ref(p) ==
    IF p.open_indices = <<>> THEN Len(p.store) ELSE Last(p.open_indices)

\* ValuePool::push.  With a free position: open_indices.pop(), then the
\* indexed write self.store[index] = Some(value), which panics when index is
\* not below store.len() (the pop has happened by then).  Otherwise the value
\* is appended and its position, store.len() - 1, is returned.
push(p, v) ==
    IF p.open_indices # <<>>
    THEN LET index == Last(p.open_indices)
             rest == Front(p.open_indices)
         IN IF index < Len(p.store)
            THEN Result([p.store EXCEPT ![index + 1] = Some(v)], rest,
                        None, <<index>>, FALSE, FALSE)
            ELSE Result(p.store, rest, None, <<>>, FALSE, TRUE)
    ELSE Result(Append(p.store, Some(v)), p.open_indices,
                None, <<Len(p.store)>>, FALSE, FALSE)

\* remove without the trailing-slot shortcut: always marks the slot free.
remove_no_shrink(p, r) ==
    IF ~has_item(p, r)
    THEN Result(p.store, p.open_indices, None, <<>>, FALSE, FALSE)
    ELSE Result([p.store EXCEPT ![r + 1] = None], Append(p.open_indices, r),
                None, <<>>, FALSE, FALSE)

\* ValuePool::remove.  Nothing when no item is at r; store.pop() when r is the
\* last position; otherwise r is pushed on open_indices and the slot set None.
remove(p, r) ==
    IF ~has_item(p, r)
    THEN Result(p.store, p.open_indices, None, <<>>, FALSE, FALSE)
    ELSE IF r + 1 = Len(p.store)
         THEN Result(Front(p.store), p.open_indices, None, <<>>, FALSE, FALSE)
         ELSE Result([p.store EXCEPT ![r + 1] = None],
                     Append(p.open_indices, r), None, <<>>, FALSE, FALSE)

\* take that pushes the position on open_indices whatever the slot held.
take_always_frees(p, r) ==
    IF r >= Len(p.store)
    THEN Result(p.store, p.open_indices, None, <<>>, FALSE, FALSE)
    ELSE Result([p.store EXCEPT ![r + 1] = None], Append(p.open_indices, r),
                p.store[r + 1], <<>>, FALSE, FALSE)

\* take that leaves the taken position off open_indices.
take_forgets(p, r) ==
    IF r >= Len(p.store)
    THEN Result(p.store, p.open_indices, None, <<>>, FALSE, FALSE)
    ELSE Result([p.store EXCEPT ![r + 1] = None], p.open_indices,
                p.store[r + 1], <<>>, FALSE, FALSE)

\* ValuePool::take.  store.get_mut(i)? returns None out of range; otherwise
\* the slot is swapped with None and, when it held a value, i is pushed on
\* open_indices.  The store never shrinks here.
take(p, r) ==
    IF r >= Len(p.store)
    THEN Result(p.store, p.open_indices, None, <<>>, FALSE, FALSE)
    ELSE LET tmp == p.store[r + 1]
         IN Result([p.store EXCEPT ![r + 1] = None],
                   IF tmp # None THEN Append(p.open_indices, r)
                                 ELSE p.open_indices,
                   tmp, <<>>, FALSE, FALSE)

\* swap that returns the references in the order they were given.
swap_same_refs(p, r1, r2) ==
    IF r1 >= Len(p.store) \/ r2 >= Len(p.store)
    THEN Result(p.store, p.open_indices, None, <<>>, FALSE, FALSE)
    ELSE Result([p.store EXCEPT ![r1 + 1] = p.store[r2 + 1],
                                ![r2 + 1] = p.store[r1 + 1]],
                p.open_indices, None, <<r1, r2>>, FALSE, FALSE)

\* ValuePool::swap.  None when either position is out of the store; otherwise
\* store.swap(i, j), whatever the two slots hold, and Some((ref_2, ref_1)).
\* open_indices is not touched.
swap(p, r1, r2) ==
    IF r1 >= Len(p.store) \/ r2 >= Len(p.store)
    THEN Result(p.store, p.open_indices, None, <<>>, FALSE, FALSE)
    ELSE Result([p.store EXCEPT ![r1 + 1] = p.store[r2 + 1],
                                ![r2 + 1] = p.store[r1 + 1]],
                p.open_indices, None, <<r2, r1>>, FALSE, FALSE)

\* remove_full that keeps the order of the slots (Vec::remove).
remove_full_shift(p, r) ==
    IF r >= Len(p.store)
    THEN Result(p.store, p.open_indices, None, <<>>, FALSE, TRUE)
    ELSE Result(SubSeq(p.store, 1, r) \o SubSeq(p.store, r + 2, Len(p.store)),
                p.open_indices, p.store[r + 1], <<>>, FALSE, FALSE)

\* ValuePool::remove_full: self.store.swap_remove(i).  Vec::swap_remove
\* panics when i is not below the length; otherwise the last slot is moved
\* into position i, the store is one slot shorter, and the former content of
\* slot i (an Option<T>) is returned.  open_indices is not touched.
remove_full(p, r) ==
    IF r >= Len(p.store)
    THEN Result(p.store, p.open_indices, None, <<>>, FALSE, TRUE)
    ELSE Result(IF r + 1 = Len(p.store)
                THEN Front(p.store)
                ELSE [Front(p.store) EXCEPT ![r + 1] = Last(p.store)],
                p.open_indices, p.store[r + 1], <<>>, FALSE, FALSE)

\* ValuePool::clear
clear(p) == Result(<<>>, <<>>, None, <<>>, FALSE, FALSE)

\* ValuePool::get_mut, and the caller's write of v through the &mut T it got.
get_mut(p, r, v) ==
    IF get(p, r) = None
    THEN Result(p.store, p.open_indices, None, <<>>, FALSE, FALSE)
    ELSE Result([p.store EXCEPT ![r + 1] = Some(v)], p.open_indices,
                get(p, r), <<>>, FALSE, FALSE)

----------------------------------------------------------------------------
\* AliveValuePool (src/src/runtime_alive_index.rs): a ValuePool of entries
\* (value, active_references). A handle AliveIndex holds the position idx
\* and `counter`, a raw pointer to the entry's active_references inside the
\* buffer of the store. The buffer is named by its generation `buf`: the
\* store moves to a new buffer whenever a push grows it beyond its
\* capacity, and the handles made before then point into the freed one.
\* handles[idx + 1] is the number n of live handles of position idx and the
\* buffer they point into. Using a handle whose buffer is gone is undefined
\* behaviour; `ub` records it and nothing is modelled beyond it.

\* ValuePoolEntry::new
ValuePoolEntry(v) == [value |-> v, active_references |-> 1]

\* AliveValuePool::new
AliveValuePool_new ==
    [store |-> <<>>, open_indices |-> <<>>, cap |-> 0, buf |-> 0,
     handles |-> <<>>, ub |-> FALSE]

NoHandle == [n |-> 0, buf |-> 0]

\* The capacity of a Vec after growing from capacity c (amortized doubling,
\* for elements above 1024 bytes: the smallest capacity is one element).
grow_amortized(c) == IF c = 0 THEN c + 1 ELSE c + c

\* The handle's counter points into the buffer the store is in now.
counter_valid(a, idx) == a.handles[idx + 1].buf = a.buf

\* AliveIndex::get_counter().fetch_add / fetch_sub through a valid pointer.
\* The memory of a slot whose entry was taken holds no counter any more.
fetch_add(a, idx, d) ==
    IF a.store[idx + 1] = None THEN a.store
    ELSE [a.store EXCEPT ![idx + 1] =
             Some([value |-> a.store[idx + 1][1].value,
                   active_references |->
                       a.store[idx + 1][1].active_references + d])]

\* One handle of position idx fewer.
handle_gone(a, idx) ==
    [a.handles EXCEPT ![idx + 1] =
        IF a.handles[idx + 1].n = 1 THEN NoHandle
        ELSE [n |-> a.handles[idx + 1].n - 1, buf |-> a.handles[idx + 1].buf]]

\* alive_pool.push(v): the handle returned points into the buffer the store
\* is in after the push.
alive_push(a, v) ==
    LET res == push(ValuePool(a.store, a.open_indices), ValuePoolEntry(v))
        idx == res.ret_ref[1]
        realloc == Len(res.store) > a.cap
        buf == IF realloc THEN a.buf + 1 ELSE a.buf
        h == [n |-> 1, buf |-> buf]
    IN  [store |-> res.store, open_indices |-> res.open_indices,
         cap |-> IF realloc THEN grow_amortized(a.cap) ELSE a.cap,
         buf |-> buf,
         handles |-> IF idx + 1 > Len(a.handles) THEN Append(a.handles, h)
                     ELSE [a.handles EXCEPT ![idx + 1] = h],
         ub |-> FALSE]

\* handle.clone()
alive_clone(a, idx) ==
    IF counter_valid(a, idx)
    THEN [a EXCEPT !.store = fetch_add(a, idx, 1),
                   !.handles[idx + 1].n = @ + 1]
    ELSE [a EXCEPT !.ub = TRUE, !.handles[idx + 1].n = @ + 1]

\* drop(handle)
alive_drop(a, idx) ==
    IF counter_valid(a, idx)
    THEN [a EXCEPT !.store = fetch_add(a, idx, -1),
                   !.handles = handle_gone(a, idx)]
    ELSE [a EXCEPT !.ub = TRUE, !.handles = handle_gone(a, idx)]

\* What get_counter().load() returns: the counter of the entry, or, through
\* a pointer into a freed buffer, whatever `garbage` that memory holds.
load(a, idx, garbage) ==
    IF counter_valid(a, idx) THEN a.store[idx + 1][1].active_references
    ELSE garbage

\* alive_pool.take(handle): the pool afterwards and the returned Option<T>.
\* The handle is dropped when take returns.
alive_take(a, idx, garbage) ==
    LET p == ValuePool(a.store, a.open_indices)
        res == IF load(a, idx, garbage) = 1 THEN take(p, idx)
               ELSE Result(a.store, a.open_indices, None, <<>>, FALSE, FALSE)
        taken == [a EXCEPT !.store = res.store,
                           !.open_indices = res.open_indices]
    IN  [pool |-> alive_drop(taken, idx),
         ret_val |-> IF res.ret_val = None THEN None
                     ELSE Some(res.ret_val[1].value)]

----------------------------------------------------------------------------
\* DoubleLinkedList (src/src/linked_list.rs): a ValuePool of nodes
\* (value, prev, next) and the positions start and end. A view is the
\* position of a node. Every method is an operator from a list to a
\* ListResult: the list afterwards, the returned value or view, whether an
\* Option-returning method returned Some, and whether the call panicked.
\* The build modelled is the default one (feature "unsafe" off).

DoubleLinkedNode(v, p, n) == [value |-> v, prev |-> p, next |-> n]

DoubleLinkedList(s, o, st, en) ==
    [store |-> s, open_indices |-> o, start |-> st, end |-> en]

\* DoubleLinkedList::new
DoubleLinkedList_new == DoubleLinkedList(<<>>, <<>>, 0, 0)

ListResult(l, rv, rview, rsome, pn) ==
    [list |-> l, ret_val |-> rv, ret_view |-> rview, ret_some |-> rsome,
     panic |-> pn]

\* The call panicked: the list is left as it was when the panic struck.
ListPanic(l) == ListResult(l, None, None, FALSE, TRUE)

\* self.store
list_store(l) == ValuePool(l.store, l.open_indices)

\* DoubleLinkedList::len
len(l) == element_count(list_store(l))

\* self.store.get(r): the node at position r, if any.
node(l, r) == get(list_store(l), r)

\* self.store.get_mut(r) is Some(node): node.next = x, node.prev = x.
set_next(l, r, x) ==
    [l EXCEPT !.store[r + 1] = Some([@[1] EXCEPT !.next = x])]

set_prev(l, r, x) ==
    [l EXCEPT !.store[r + 1] = Some([@[1] EXCEPT !.prev = x])]

\* A store.push that writes the node over position 0.
store_push_over(l, nd) ==
    [list |-> IF l.store = <<>> THEN [l EXCEPT !.store = <<Some(nd)>>]
              ELSE [l EXCEPT !.store[1] = Some(nd)],
     ref |-> 0, panic |-> FALSE]

\* self.store.push(nd): the list with the node stored, and its position.
store_push(l, nd) ==
    LET res == push(list_store(l), nd)
    IN  [list |-> [l EXCEPT !.store = res.store,
                            !.open_indices = res.open_indices],
         ref |-> IF res.panic THEN 0 ELSE res.ret_ref[1],
         panic |-> res.panic]

\* The position reached from r by following `next` (dir = "next") or `prev`
\* k times; None as soon as a node or a link is missing.
RECURSIVE follow(_, _, _, _)
follow(l, r, k, dir) ==
    IF k = 0 THEN Some(r)
    ELSE IF node(l, r) = None THEN None
    ELSE LET link == IF dir = "next" THEN node(l, r)[1].next
                                     ELSE node(l, r)[1].prev
         IN  IF link = None THEN None
             ELSE follow(l, link[1], k - 1, dir)

\* An index_to_valueref that takes the position one past the end for the
\* last one.
index_to_valueref_past_end(l, index) ==
    IF index > len(l) THEN None
    ELSE IF index >= len(l) - 1 THEN Some(l.end)
    ELSE follow(l, l.start, index, "next")

\* DoubleLinkedList::index_to_valueref
index_to_valueref(l, index) ==
    IF index >= len(l) THEN None
    ELSE IF index = len(l) - 1 THEN Some(l.end)
    ELSE IF index = 0 THEN Some(l.start)
    ELSE IF index > len(l) \div 2
         THEN follow(l, l.end, len(l) - 1 - index, "prev")
         ELSE follow(l, l.start, index, "next")

\* DoubleLinkedList::get_left_neighbour, get_right_neighbour
get_left_neighbour(l, view, n) == follow(l, view, n, "prev")

\* A get_right_neighbour that follows prev.
get_right_neighbour_prev(l, view, n) == follow(l, view, n, "prev")

get_right_neighbour(l, view, n) == follow(l, view, n, "next")

\* DoubleLinkedList::get_view
get_view(l, index) == index_to_valueref(l, index)

\* DoubleLinkedList::get
dll_get(l, index) ==
    LET r == index_to_valueref(l, index)
    IN  IF r = None \/ node(l, r[1]) = None THEN None
        ELSE Some(node(l, r[1])[1].value)

\* DoubleLinkedList::get_mut: the value the returned reference points at.
dll_get_mut(l, index) ==
    LET r == index_to_valueref(l, index)
    IN  IF r = None \/ node(l, r[1]) = None THEN None
        ELSE Some(node(l, r[1])[1].value)

\* The values an iterator yields: it starts at position r with
\* remaining_size = remaining and follows `dir` until a node or a link is
\* missing. `remaining_size -= 1` overflows when more nodes are met than
\* len() counted: the iterator panics.
RECURSIVE iterate(_, _, _, _)
iterate(l, cur, remaining, dir) ==
    IF cur = None \/ node(l, cur[1]) = None
    THEN [items |-> <<>>, panic |-> FALSE]
    ELSE IF remaining = 0 THEN [items |-> <<>>, panic |-> TRUE]
    ELSE LET nd == node(l, cur[1])[1]
             rest == iterate(l, IF dir = "next" THEN nd.next ELSE nd.prev,
                             remaining - 1, dir)
         IN  [items |-> <<nd.value>> \o rest.items, panic |-> rest.panic]

\* DoubleLinkedList::iter, iter_reverse, collected
iter(l) == iterate(l, Some(l.start), len(l), "next")

iter_reverse(l) == iterate(l, Some(l.end), len(l), "prev")

\* DoubleLinkedList::insert_left
insert_left(l, view, v) ==
    IF node(l, view) = None THEN ListResult(l, None, None, FALSE, FALSE)
    ELSE LET view_node_prev == node(l, view)[1].prev
             pushed == store_push(l, DoubleLinkedNode(v, view_node_prev,
                                                      Some(view)))
             new_node_ref == pushed.ref
         IN  IF pushed.panic THEN ListPanic(pushed.list)
             ELSE IF view_node_prev # None
                     /\ node(pushed.list, view_node_prev[1]) = None
             THEN ListPanic(pushed.list)
             ELSE LET l1 == IF view_node_prev # None
                            THEN set_next(pushed.list, view_node_prev[1],
                                          Some(new_node_ref))
                            ELSE [pushed.list EXCEPT !.start = new_node_ref]
                  IN  ListResult(set_prev(l1, view, Some(new_node_ref)),
                                 None, Some(new_node_ref), TRUE, FALSE)

\* An insert_right that splices the node in before the view.
insert_right_before(l, view, v) == insert_left(l, view, v)

\* DoubleLinkedList::insert_right
insert_right(l, view, v) ==
    IF node(l, view) = None THEN ListResult(l, None, None, FALSE, FALSE)
    ELSE LET view_node_next == node(l, view)[1].next
             pushed == store_push(l, DoubleLinkedNode(v, Some(view),
                                                      view_node_next))
             new_node_ref == pushed.ref
         IN  IF pushed.panic THEN ListPanic(pushed.list)
             ELSE IF view_node_next # None
                     /\ node(pushed.list, view_node_next[1]) = None
             THEN ListPanic(pushed.list)
             ELSE LET l1 == IF view_node_next # None
                            THEN set_prev(pushed.list, view_node_next[1],
                                          Some(new_node_ref))
                            ELSE [pushed.list EXCEPT !.end = new_node_ref]
                  IN  ListResult(set_next(l1, view, Some(new_node_ref)),
                                 None, Some(new_node_ref), TRUE, FALSE)

\* DoubleLinkedList::insert
dll_insert(l, index, v) ==
    LET node_ref == index_to_valueref(l, index)
    IN  IF node_ref = None THEN ListResult(l, None, None, FALSE, FALSE)
        ELSE insert_left(l, node_ref[1], v)

\* The first node of a list that holds none.
push_first(l, v) ==
    LET pushed == store_push(l, DoubleLinkedNode(v, None, None))
    IN  IF pushed.panic THEN ListPanic(pushed.list)
        ELSE ListResult([pushed.list EXCEPT !.start = pushed.ref,
                                            !.end = pushed.ref],
                        None, Some(pushed.ref), TRUE, FALSE)

\* DoubleLinkedList::push
dll_push(l, v) ==
    IF element_count(list_store(l)) = 0 THEN push_first(l, v)
    ELSE LET cur_last_ref == l.end
             pushed == store_push(l, DoubleLinkedNode(v, Some(cur_last_ref),
                                                      None))
         IN  IF pushed.panic \/ node(pushed.list, cur_last_ref) = None
             THEN ListPanic(pushed.list)
             ELSE ListResult(
                     [set_next(pushed.list, cur_last_ref, Some(pushed.ref))
                         EXCEPT !.end = pushed.ref],
                     None, Some(pushed.ref), TRUE, FALSE)

\* DoubleLinkedList::push_front
push_front(l, v) ==
    IF len(l) = 0 THEN push_first(l, v)
    ELSE LET res == insert_left(l, l.start, v)
         IN  IF res.ret_some THEN res ELSE ListPanic(res.list)

\* DoubleLinkedList::pop
pop(l) ==
    IF node(l, l.end) = None THEN ListResult(l, None, None, FALSE, FALSE)
    ELSE LET last_node == node(l, l.end)[1]
             before_last_ref == IF last_node.prev = None THEN 0
                                ELSE last_node.prev[1]
         IN  IF node(l, before_last_ref) = None
             THEN ListResult(l, None, None, FALSE, FALSE)
             ELSE LET l1 == set_next(l, before_last_ref, None)
                      taken == take(list_store(l1), l.end)
                  IN  ListResult([l1 EXCEPT !.store = taken.store,
                                      !.open_indices = taken.open_indices,
                                      !.end = before_last_ref],
                                 IF taken.ret_val = None THEN None
                                 ELSE Some(taken.ret_val[1].value),
                                 None, taken.ret_val # None, FALSE)

\* A multi_push that stops after its first value.
multi_push_first_only(l, last_node_view, values) ==
    ListResult([l EXCEPT !.end = last_node_view], None, None, TRUE, FALSE)

\* The loop of multi_push over the values left: every value is pushed
\* behind the node pushed before it.
RECURSIVE multi_push_rest(_, _, _)
multi_push_rest(l, last_node_view, values) ==
    IF values = <<>>
    THEN ListResult([l EXCEPT !.end = last_node_view], None, None, TRUE, FALSE)
    ELSE LET pushed == store_push(l, DoubleLinkedNode(Head(values),
                                         Some(last_node_view), None))
         IN  IF pushed.panic \/ node(pushed.list, last_node_view) = None
             THEN ListPanic(pushed.list)
             ELSE multi_push_rest(
                     set_next(pushed.list, last_node_view, Some(pushed.ref)),
                     pushed.ref, Tail(values))

\* DoubleLinkedList::multi_push
multi_push(l, values) ==
    IF values = <<>> THEN ListResult(l, None, None, FALSE, FALSE)
    ELSE IF len(l) = 0
    THEN LET pushed == store_push(l, DoubleLinkedNode(Head(values),
                                                      None, None))
         IN  IF pushed.panic THEN ListPanic(pushed.list)
             ELSE multi_push_rest([pushed.list EXCEPT !.start = pushed.ref],
                                  pushed.ref, Tail(values))
    ELSE LET pushed == store_push(l, DoubleLinkedNode(Head(values),
                                                      Some(l.end), None))
         IN  IF pushed.panic THEN ListPanic(pushed.list)
             ELSE IF node(pushed.list, l.end) = None
             THEN ListResult(pushed.list, None, None, FALSE, FALSE)
             ELSE multi_push_rest(
                     set_next(pushed.list, l.end, Some(pushed.ref)),
                     pushed.ref, Tail(values))

\* The loop of multi_push_front over the values left: every value is pushed
\* in front of the node pushed before it.
RECURSIVE multi_push_front_rest(_, _, _)
multi_push_front_rest(l, first_node_view, values) ==
    IF values = <<>>
    THEN ListResult([l EXCEPT !.start = first_node_view],
                    None, None, TRUE, FALSE)
    ELSE LET pushed == store_push(l, DoubleLinkedNode(Head(values), None,
                                         Some(first_node_view)))
         IN  IF pushed.panic \/ node(pushed.list, first_node_view) = None
             THEN ListPanic(pushed.list)
             ELSE multi_push_front_rest(
                     set_prev(pushed.list, first_node_view, Some(pushed.ref)),
                     pushed.ref, Tail(values))

\* DoubleLinkedList::multi_push_front. In a list that holds nodes the
\* first new node is written into the prev of the node at self.end.
multi_push_front(l, values) ==
    IF values = <<>> THEN ListResult(l, None, None, FALSE, FALSE)
    ELSE IF len(l) = 0
    THEN LET pushed == store_push(l, DoubleLinkedNode(Head(values),
                                                      None, None))
         IN  IF pushed.panic THEN ListPanic(pushed.list)
             ELSE multi_push_front_rest(
                     [pushed.list EXCEPT !.start = pushed.ref],
                     pushed.ref, Tail(values))
    ELSE LET pushed == store_push(l, DoubleLinkedNode(Head(values), None,
                                                      Some(l.start)))
         IN  IF pushed.panic \/ node(pushed.list, l.end) = None
             THEN ListPanic(pushed.list)
             ELSE multi_push_front_rest(
                     set_prev(pushed.list, l.end, Some(pushed.ref)),
                     pushed.ref, Tail(values))

\* DoubleLinkedList::peek_view
peek_view(l, view) ==
    IF node(l, view) = None THEN None ELSE Some(node(l, view)[1].value)

\* A swap that exchanges the values of the two nodes where they are.
swap_values(l, view1, view2) ==
    IF node(l, view1) = None \/ node(l, view2) = None
    THEN ListResult(l, None, None, FALSE, FALSE)
    ELSE ListResult(
            [l EXCEPT !.store[view1 + 1] =
                         Some([@[1] EXCEPT !.value = node(l, view2)[1].value]),
                      !.store[view2 + 1] =
                         Some([@[1] EXCEPT !.value = node(l, view1)[1].value])],
            None, None, TRUE, FALSE)

\* A swap that rewrites no link.
swap_step_skip(st, doit, r, field, x) == st

\* One `self.store.get_mut(r)?.field = x` of swap, done when `doit` holds:
\* st is the list so far and whether swap is still running (it returns None
\* at the first node that is missing).
swap_step(st, doit, r, field, x) ==
    IF ~st.ok \/ ~doit THEN st
    ELSE IF node(st.list, r[1]) = None THEN [st EXCEPT !.ok = FALSE]
    ELSE [st EXCEPT !.list = IF field = "next"
                               THEN set_next(st.list, r[1], x)
                               ELSE set_prev(st.list, r[1], x)]

\* DoubleLinkedList::swap
dll_swap(l, view1, view2) ==
    IF node(l, view1) = None \/ node(l, view2) = None
    THEN ListResult(l, None, None, FALSE, FALSE)
    ELSE LET node1_prev == node(l, view1)[1].prev
             node1_next == node(l, view1)[1].next
             node2_prev == node(l, view2)[1].prev
             node2_next == node(l, view2)[1].next
             \* reassign node1
             s1 == swap_step([list |-> l, ok |-> TRUE], TRUE, Some(view1),
                             "prev", IF node2_prev = Some(view1)
                                     THEN node1_next ELSE node2_prev)
             s2 == swap_step(s1, TRUE, Some(view1), "next",
                             IF node2_next = Some(view1)
                             THEN node1_prev ELSE node2_next)
             \* reassign neighbours of old node1
             s3 == swap_step(s2, node1_prev # None /\ node1_prev # Some(view2),
                             node1_prev, "next", Some(view2))
             s4 == swap_step(s3, node1_next # None /\ node1_next # Some(view2),
                             node1_next, "prev", Some(view2))
             \* reassign node2
             s5 == swap_step(s4, TRUE, Some(view2), "prev",
                             IF node1_prev = Some(view2)
                             THEN node2_next ELSE node1_prev)
             s6 == swap_step(s5, TRUE, Some(view2), "next",
                             IF node1_next = Some(view2)
                             THEN node2_prev ELSE node1_next)
             \* reassign neighbours of old node2
             s7 == swap_step(s6, node2_prev # None /\ node2_prev # Some(view1),
                             node2_prev, "next", Some(view1))
             s8 == swap_step(s7, node2_next # None /\ node2_next # Some(view1),
                             node2_next, "prev", Some(view1))
             start == IF view1 = l.start THEN view2
                      ELSE IF view2 = l.start THEN view1 ELSE l.start
             end == IF view1 = l.end THEN view2
                    ELSE IF view2 = l.end THEN view1 ELSE l.end
         IN  IF ~s8.ok THEN ListResult(s8.list, None, None, FALSE, FALSE)
             ELSE ListResult([s8.list EXCEPT !.start = start, !.end = end],
                             None, None, TRUE, FALSE)

\* An inner_swap that exchanges the links as swap does and moves no node.
inner_swap_links_only(l, view1, view2) ==
    [dll_swap(l, view1, view2) EXCEPT !.ret_view = <<view2, view1>>]

\* DoubleLinkedList::inner_swap (unsafe): each node is given the links of
\* the other and the two slots of the store are swapped. ret_view is the
\* pair of views returned, (view2, view1).
inner_swap(l, view1, view2) ==
    IF node(l, view1) = None \/ node(l, view2) = None
    THEN ListResult(l, None, None, FALSE, FALSE)
    ELSE LET node1 == node(l, view1)[1]
             node2 == node(l, view2)[1]
             l1 == set_next(set_prev(l, view1, node2.prev), view1, node2.next)
             l2 == set_next(set_prev(l1, view2, node1.prev), view2, node1.next)
             swapped == swap(list_store(l2), view1, view2)
         IN  ListResult([l2 EXCEPT !.store = swapped.store,
                                   !.open_indices = swapped.open_indices],
                        None, <<view2, view1>>, TRUE, swapped.panic)

\* The BTreeMap of multi_insert is a function from its keys to views.
tree_insert(tree, key, view) ==
    [k \in DOMAIN tree \cup {key} |-> IF k = key THEN view ELSE tree[k]]

Max(S) == CHOOSE x \in S : \A y \in S : y <= x

Min(S) == CHOOSE x \in S : \A y \in S : x <= y

\* closest_entry: the key of the entry closest to `key` (the later one on a
\* tie), None for an empty map.
closest_entry(tree, key) ==
    LET before == {k \in DOMAIN tree : k <= key}
        after == {k \in DOMAIN tree : k >= key}
    IN  IF before # {}
        THEN IF after = {} THEN Some(Max(before))
             ELSE IF key - Max(before) >= Min(after) - key
                  THEN Some(Min(after)) ELSE Some(Max(before))
        ELSE IF after = {} THEN None ELSE Some(Min(after))

\* The loop over store_index_views.range_mut(lo..hi) of multi_insert, keys
\* in ascending order: every view moves to the node before it. ok is FALSE
\* when a node or its prev is missing (multi_insert returns None).
\* A loop of multi_insert that leaves the views after the insertion alone.
shift_views_none(l, tree, lo, hi) == [tree |-> tree, ok |-> TRUE]

RECURSIVE shift_views(_, _, _, _)
shift_views(l, tree, lo, hi) ==
    LET keys == {k \in DOMAIN tree : lo <= k /\ k < hi}
    IN  IF keys = {} THEN [tree |-> tree, ok |-> TRUE]
        ELSE LET k == Min(keys)
             IN  IF node(l, tree[k]) = None \/ node(l, tree[k])[1].prev = None
                 THEN [tree |-> tree, ok |-> FALSE]
                 ELSE shift_views(l, [tree EXCEPT
                                         ![k] = node(l, tree[k])[1].prev[1]],
                                  k + 1, hi)

\* The loop of multi_insert over the pairs <<index, value>> left.
RECURSIVE multi_insert_rest(_, _, _)
multi_insert_rest(l, tree, pairs) ==
    IF pairs = <<>> THEN ListResult(l, None, None, TRUE, FALSE)
    ELSE LET index == Head(pairs)[1]
             value == Head(pairs)[2]
             closest == closest_entry(tree, index)
         IN  IF index >= len(l) THEN multi_insert_rest(l, tree, Tail(pairs))
             ELSE IF closest = None
             THEN ListResult(l, None, None, FALSE, FALSE)
             ELSE LET closest_found_index == closest[1]
                      closest_found_view == tree[closest[1]]
                      true_view ==
                         IF index <= closest_found_index
                         THEN get_left_neighbour(l, closest_found_view,
                                            closest_found_index - index)
                         ELSE get_right_neighbour(l, closest_found_view,
                                            index - closest_found_index)
                  IN  IF true_view = None
                      THEN ListResult(l, None, None, FALSE, FALSE)
                      ELSE LET ins == insert_left(l, true_view[1], value)
                               shifted == shift_views(ins.list,
                                             tree_insert(tree, index,
                                                         ins.ret_view[1]),
                                             index + 1, len(ins.list))
                           IN  IF ins.panic \/ ~ins.ret_some THEN ins
                               ELSE IF ~shifted.ok
                               THEN ListResult(ins.list, None, None,
                                               FALSE, FALSE)
                               ELSE multi_insert_rest(ins.list, shifted.tree,
                                                      Tail(pairs))

\* The list and store_index_views each time the loop of multi_insert is at
\* its head, before every pair left and when the pairs are used up; the
\* sequence ends where multi_insert returns early.
RECURSIVE multi_insert_heads(_, _, _)
multi_insert_heads(l, tree, pairs) ==
    LET head == <<[list |-> l, tree |-> tree]>>
    IN  IF pairs = <<>> THEN head
        ELSE LET index == Head(pairs)[1]
                 value == Head(pairs)[2]
                 closest == closest_entry(tree, index)
             IN  IF index >= len(l)
                 THEN head \o multi_insert_heads(l, tree, Tail(pairs))
                 ELSE IF closest = None THEN head
                 ELSE LET closest_found_index == closest[1]
                          closest_found_view == tree[closest[1]]
                          true_view ==
                             IF index <= closest_found_index
                             THEN get_left_neighbour(l, closest_found_view,
                                                closest_found_index - index)
                             ELSE get_right_neighbour(l, closest_found_view,
                                                index - closest_found_index)
                      IN  IF true_view = None THEN head
                          ELSE LET ins == insert_left(l, true_view[1], value)
                                   shifted == shift_views(ins.list,
                                                 tree_insert(tree, index,
                                                             ins.ret_view[1]),
                                                 index + 1, len(ins.list))
                               IN  IF ins.panic \/ ~ins.ret_some \/ ~shifted.ok
                                   THEN head
                                   ELSE head \o multi_insert_heads(ins.list,
                                                   shifted.tree, Tail(pairs))

\* DoubleLinkedList::multi_insert. On a list that holds no node
\* `self.len() - 1` overflows: the call panics.
multi_insert(l, pairs) ==
    IF len(l) = 0 THEN ListPanic(l)
    ELSE multi_insert_rest(l,
            tree_insert(tree_insert(<<>>, 0, l.start), len(l) - 1, l.end),
            pairs)

\* The loop of multi_get_view over the indexes left: views holds the views
\* found so far.
RECURSIVE multi_get_view_rest(_, _, _, _)
multi_get_view_rest(l, tree, indexes, views) ==
    IF indexes = <<>> THEN ListResult(l, None, views, TRUE, FALSE)
    ELSE LET index == Head(indexes)
             closest == closest_entry(tree, index)
         IN  IF index >= len(l)
             THEN multi_get_view_rest(l, tree, Tail(indexes), views)
             ELSE IF closest = None
             THEN ListResult(l, None, <<>>, FALSE, FALSE)
             ELSE LET closest_found_index == closest[1]
                      closest_found_view == tree[closest[1]]
                      true_view ==
                         IF index <= closest_found_index
                         THEN get_left_neighbour(l, closest_found_view,
                                            closest_found_index - index)
                         ELSE get_right_neighbour(l, closest_found_view,
                                            index - closest_found_index)
                  IN  IF true_view = None
                      THEN ListResult(l, None, <<>>, FALSE, FALSE)
                      ELSE multi_get_view_rest(l,
                              tree_insert(tree, index, true_view[1]),
                              Tail(indexes), Append(views, true_view[1]))

\* DoubleLinkedList::multi_get_view: ret_view is the Vec of views returned.
\* On a list that holds no node `self.len() - 1` overflows: the call panics.
multi_get_view(l, indexes) ==
    IF len(l) = 0 THEN ListPanic(l)
    ELSE multi_get_view_rest(l,
            tree_insert(tree_insert(<<>>, 0, l.start), len(l) - 1, l.end),
            indexes, <<>>)

\* The positions of the store an iterator visits from position cur on,
\* `remaining` of them at most.
RECURSIVE walk(_, _, _, _)
walk(l, cur, remaining, dir) ==
    IF cur = None \/ node(l, cur[1]) = None \/ remaining = 0 THEN <<>>
    ELSE LET nd == node(l, cur[1])[1]
         IN  <<cur[1]>> \o walk(l, IF dir = "next" THEN nd.next ELSE nd.prev,
                                remaining - 1, dir)

\* The nodes of a list head to tail and tail to head; the logical position
\* of a node is its place in order(l), counted from 0.
order(l) == walk(l, Some(l.start), len(l), "next")

order_reverse(l) == walk(l, Some(l.end), len(l), "prev")

\* The logical position of the node a view names: its place in order(l),
\* counted from 0; None for a node that is not in the list.
position(l, view) ==
    LET at == {i \in DOMAIN order(l) : order(l)[i] = view}
    IN  IF at = {} THEN None ELSE Some(Min(at) - 1)

\* A reuse_insert_left that inserts at the view of the last insertion.
reuse_insert_at_view(l, q, view, p, v) == insert_left(l, view, v)

\* reuse_insert_left(dll, (q, view), (p, v)) (unsafe fn). `dll.len() - p`
\* overflows for p above the length: the call panics.
reuse_insert_left(l, q, view, p, v) ==
    IF p > len(l) THEN ListPanic(l)
    ELSE LET distance_to_start == p
             distance_to_end == len(l) - p
             normal_minimal_distance == Min({distance_to_end, distance_to_start})
             distance_to_last == IF p >= q THEN p - q ELSE q - p
             target_view == IF p >= q
                            THEN get_right_neighbour(l, view, distance_to_last)
                            ELSE get_left_neighbour(l, view, distance_to_last)
         IN  IF distance_to_last < normal_minimal_distance
             THEN IF target_view = None
                  THEN ListResult(l, None, None, FALSE, FALSE)
                  ELSE insert_left(l, target_view[1], v)
             ELSE IF get_view(l, p) = None
                  THEN ListResult(l, None, None, FALSE, FALSE)
                  ELSE insert_left(l, get_view(l, p)[1], v)

\* A conversion from a Vec that pushes every value in front.
from_vec_front(values) == multi_push_front(DoubleLinkedList_new, values)

\* DoubleLinkedList::from(Vec): multi_push of the values on a new list
\* (with_capacity reserves room and stores nothing); the result of
\* multi_push is dropped.
from_vec(values) == multi_push(DoubleLinkedList_new, values)

\* DoubleLinkedListIntoIterator::next until it returns None: every node met
\* from current_ref on is taken out of the store and its value yielded.
RECURSIVE into_iter_rest(_, _)
into_iter_rest(l, current_ref) ==
    IF current_ref = None THEN ListResult(l, <<>>, None, TRUE, FALSE)
    ELSE LET taken == take(list_store(l), current_ref[1])
         IN  IF taken.ret_val = None THEN ListResult(l, <<>>, None, TRUE, FALSE)
             ELSE LET rest == into_iter_rest(
                                 [l EXCEPT !.store = taken.store,
                                           !.open_indices = taken.open_indices],
                                 taken.ret_val[1].next)
                  IN  [rest EXCEPT !.ret_val =
                                      <<taken.ret_val[1].value>> \o @]

\* Vec::from(DoubleLinkedList): into_iter().collect(). ret_val is the Vec,
\* list the list the iterator owns when it is exhausted.
into_vec(l) == into_iter_rest(l, Some(l.start))

\* DoubleLinkedList::multi_get: the loop of multi_get_view, with the value
\* of every node found pushed instead of its view (None when a node is
\* missing). ret_val is the Vec of values returned. On a list that holds no
\* node `self.len() - 1` overflows: the call panics.
multi_get(l, indexes) ==
    LET found == multi_get_view(l, indexes)
    IN  IF found.panic \/ ~found.ret_some THEN found
        ELSE IF \E i \in DOMAIN found.ret_view :
                   node(l, found.ret_view[i]) = None
        THEN ListResult(l, None, None, FALSE, FALSE)
        ELSE ListResult(l, [i \in DOMAIN found.ret_view |->
                               node(l, found.ret_view[i])[1].value],
                        None, TRUE, FALSE)

----------------------------------------------------------------------------
\* The state machine: one action per call.

\* The effect of one call on the pool, and its record in `last`.
PoolCall(method, arg, val, res) ==
    /\ store' = res.store
    /\ open_indices' = res.open_indices
    /\ panicked' = res.panic
    /\ last' = [op |-> method, arg |-> arg, val |-> val,
                ret_val |-> res.ret_val, ret_ref |-> res.ret_ref,
                ret_bool |-> res.ret_bool,
                store0 |-> store, open0 |-> open_indices]
    /\ UNCHANGED <<alive, alive_last, dll, dll_last>>

\* A call of a method of ValuePool itself: no callback is involved.
Call(method, arg, val, res) ==
    /\ PoolCall(method, arg, val, res)
    /\ callbacks' = <<>>

Init ==
    /\ store = new.store
    /\ open_indices = new.open_indices
    /\ panicked = FALSE
    /\ last = [op |-> "new", arg |-> <<>>, val |-> None, ret_val |-> None,
               ret_ref |-> <<>>, ret_bool |-> FALSE,
               store0 |-> <<>>, open0 |-> <<>>]
    /\ net_pushes = 0
    /\ callbacks = <<>>
    /\ alive = AliveValuePool_new
    /\ alive_last = [op |-> "new", idx |-> 0, ret_val |-> None,
                     alive0 |-> AliveValuePool_new]
    /\ dll = DoubleLinkedList_new
    /\ dll_last = [op |-> "new", args |-> <<>>, vals |-> <<>>,
                   ret_val |-> None, ret_view |-> None, ret_some |-> FALSE,
                   panic |-> FALSE, list0 |-> DoubleLinkedList_new,
                   calls |-> 0]

\* pool.push(v); the store grows to MaxSlots slots at most.
Push ==
    /\ ~panicked
    /\ open_indices # <<>> \/ Len(store) < MaxSlots
    /\ \E v \in Values :
          /\ Call("push", <<>>, Some(v), push(pool, v))
          /\ net_pushes' = IF push(pool, v).panic THEN net_pushes
                                                  ELSE net_pushes + 1

\* pool.remove(r)
Remove ==
    /\ ~panicked
    /\ \E r \in Refs :
          /\ Call("remove", <<r>>, None, remove(pool, r))
          /\ net_pushes' = IF has_item(pool, r) THEN net_pushes - 1
                                                ELSE net_pushes

\* pool.take(r)
Take ==
    /\ ~panicked
    /\ \E r \in Refs :
          /\ Call("take", <<r>>, None, take(pool, r))
          /\ net_pushes' = IF take(pool, r).ret_val # None
                           THEN net_pushes - 1 ELSE net_pushes

\* pool.swap(r1, r2)
Swap ==
    /\ ~panicked
    /\ \E r1 \in Refs, r2 \in Refs :
          Call("swap", <<r1, r2>>, None, swap(pool, r1, r2))
    /\ UNCHANGED net_pushes

\* pool.clear(): every stored value is dropped.
Clear ==
    /\ ~panicked
    /\ Call("clear", <<>>, None, clear(pool))
    /\ net_pushes' = 0

\* pool.get(r)
Get ==
    /\ ~panicked
    /\ \E r \in Refs :
          Call("get", <<r>>, None,
               Result(store, open_indices, get(pool, r), <<>>, FALSE, FALSE))
    /\ UNCHANGED net_pushes

\* *pool.get_mut(r)? = v
GetMut ==
    /\ ~panicked
    /\ \E r \in Refs, v \in Values :
          Call("get_mut", <<r>>, Some(v), get_mut(pool, r, v))
    /\ UNCHANGED net_pushes

\* pool.has_item(r)
HasItem ==
    /\ ~panicked
    /\ \E r \in Refs :
          Call("has_item", <<r>>, None,
               Result(store, open_indices, None, <<>>, has_item(pool, r), FALSE))
    /\ UNCHANGED net_pushes

\* pool.next_push_ref()
NextPushRef ==
    /\ ~panicked
    /\ Call("next_push_ref", <<>>, None,
            Result(store, open_indices, None, <<next_push_ref(pool)>>,
                   FALSE, FALSE))
    /\ UNCHANGED net_pushes

\* Every safe method of ValuePool.
Next ==
    \/ Push
    \/ Remove
    \/ Take
    \/ Swap
    \/ Clear
    \/ Get
    \/ GetMut
    \/ HasItem
    \/ NextPushRef

Spec == Init /\ [][Next]_vars

\* Interleavings of push, remove and take alone.
NextPushRemoveTake ==
    \/ Push
    \/ Remove
    \/ Take

SpecPushRemoveTake == Init /\ [][NextPushRemoveTake]_vars

\* unsafe { pool.remove_full(r) }; net_pushes is kept from growing without
\* bound (a push over a position remove_full left stale removes no value).
RemoveFull ==
    /\ ~panicked
    /\ net_pushes <= MaxSlots
    /\ \E r \in Refs :
          /\ Call("remove_full", <<r>>, None, remove_full(pool, r))
          /\ net_pushes' = IF remove_full(pool, r).ret_val # None
                           THEN net_pushes - 1 ELSE net_pushes

\* The methods that add or remove values, and the unsafe remove_full
\* (remove_full reads and writes the store only, never open_indices).
NextRemoveFull ==
    \/ Push
    \/ Remove
    \/ Take
    \/ Clear
    \/ RemoveFull

SpecRemoveFull == Init /\ [][NextRemoveFull]_vars

----------------------------------------------------------------------------
\* SmartValuePool: a ValuePool with two callbacks, on_empty and
\* on_empty_push. A callback is given the pool by mutable reference; the
\* callbacks modelled here record that they were invoked and leave the pool
\* as it is.

\* What a smart method did: the call on the pool and the callbacks invoked.
SmartResult(res, cbs) == [res |-> res, callbacks |-> cbs]

\* smart_pool.smart_push(v, object)
smart_push(p, v) ==
    LET tmp == push(p, v)
    IN  SmartResult(tmp,
            IF ~tmp.panic
               /\ element_count(ValuePool(tmp.store, tmp.open_indices)) = 1
            THEN <<"on_empty_push">> ELSE <<>>)

\* smart_pool.smart_take(r, object)
smart_take(p, r) ==
    LET tmp == take(p, r)
    IN  SmartResult(tmp,
            IF is_empty(ValuePool(tmp.store, tmp.open_indices))
            THEN <<"on_empty">> ELSE <<>>)

\* smart_pool.smart_remove(r, object)
smart_remove(p, r) ==
    LET tmp == remove(p, r)
    IN  SmartResult(tmp,
            IF is_empty(ValuePool(tmp.store, tmp.open_indices))
            THEN <<"on_empty">> ELSE <<>>)

\* A call of a smart method: the call on the pool and its callbacks.
SmartCall(method, arg, val, sres) ==
    /\ PoolCall(method, arg, val, sres.res)
    /\ callbacks' = sres.callbacks

SmartPush ==
    /\ ~panicked
    /\ open_indices # <<>> \/ Len(store) < MaxSlots
    /\ \E v \in Values :
          /\ SmartCall("smart_push", <<>>, Some(v), smart_push(pool, v))
          /\ net_pushes' = IF smart_push(pool, v).res.panic
                           THEN net_pushes ELSE net_pushes + 1

SmartTake ==
    /\ ~panicked
    /\ \E r \in Refs :
          /\ SmartCall("smart_take", <<r>>, None, smart_take(pool, r))
          /\ net_pushes' = IF smart_take(pool, r).res.ret_val # None
                           THEN net_pushes - 1 ELSE net_pushes

SmartRemove ==
    /\ ~panicked
    /\ \E r \in Refs :
          /\ SmartCall("smart_remove", <<r>>, None, smart_remove(pool, r))
          /\ net_pushes' = IF has_item(pool, r) THEN net_pushes - 1
                                                ELSE net_pushes

\* The smart methods, and through Deref the methods of the pool that change
\* it.
NextSmart ==
    \/ SmartPush
    \/ SmartTake
    \/ SmartRemove
    \/ Push
    \/ Remove
    \/ Take
    \/ Swap
    \/ Clear

SpecSmart == Init /\ [][NextSmart]_vars

----------------------------------------------------------------------------
\* AliveValuePool: one action per call of the pool or of a handle.

\* The positions some live handle names.
LiveHandles == {i \in 0..(Len(alive.handles) - 1) : alive.handles[i + 1].n > 0}

\* The number of live handles in all.
RECURSIVE HandleCount(_)
HandleCount(hs) == IF hs = <<>> THEN 0 ELSE hs[1].n + HandleCount(Tail(hs))

AliveCall(method, idx, rv, a) ==
    /\ alive' = a
    /\ alive_last' = [op |-> method, idx |-> idx, ret_val |-> rv,
                      alive0 |-> alive]
    /\ UNCHANGED <<store, open_indices, panicked, last, net_pushes, callbacks,
                   dll, dll_last>>

AlivePush ==
    /\ ~alive.ub
    /\ alive.open_indices # <<>> \/ Len(alive.store) < MaxSlots
    /\ HandleCount(alive.handles) < MaxHandles
    /\ \E v \in Values :
          AliveCall("push", push(ValuePool(alive.store, alive.open_indices),
                                 ValuePoolEntry(v)).ret_ref[1],
                    None, alive_push(alive, v))

AliveClone ==
    /\ ~alive.ub
    /\ HandleCount(alive.handles) < MaxHandles
    /\ \E idx \in LiveHandles :
          AliveCall("clone", idx, None, alive_clone(alive, idx))

AliveDrop ==
    /\ ~alive.ub
    /\ \E idx \in LiveHandles :
          AliveCall("drop", idx, None, alive_drop(alive, idx))

AliveTake ==
    /\ ~alive.ub
    /\ \E idx \in LiveHandles, garbage \in 1..2 :
          AliveCall("take", idx, alive_take(alive, idx, garbage).ret_val,
                    alive_take(alive, idx, garbage).pool)

NextAlive ==
    \/ AlivePush
    \/ AliveClone
    \/ AliveDrop
    \/ AliveTake

SpecAlive == Init /\ [][NextAlive]_vars

----------------------------------------------------------------------------
\* DoubleLinkedList: one action per call.

\* The sequences over S of length n at most.
SeqsUpTo(S, n) == UNION {[1..k -> S] : k \in 0..n}

\* The views a caller can hold: the positions the store has ever had (a
\* view is not invalidated when its node is removed).
Views == 0..(Len(dll.store) - 1)

\* The positions in the list a caller asks for.
Indices == 0..MaxSlots

ListCall(method, args, vals, res) ==
    /\ dll' = res.list
    /\ dll_last' = [op |-> method, args |-> args, vals |-> vals,
                    ret_val |-> res.ret_val, ret_view |-> res.ret_view,
                    ret_some |-> res.ret_some, panic |-> res.panic,
                    list0 |-> dll, calls |-> dll_last.calls + 1]
    /\ UNCHANGED <<store, open_indices, panicked, last, net_pushes, callbacks,
                   alive, alive_last>>

\* The call runs on a list that no call has panicked on; it is one of
\* MaxCalls calls at most, it adds k nodes at most and the list holds
\* MaxSlots nodes at most.
ListReady(k) ==
    /\ ~dll_last.panic
    /\ dll_last.calls < MaxCalls
    /\ len(dll) + k <= MaxSlots

ListPush ==
    /\ ListReady(1)
    /\ \E v \in Values : ListCall("push", <<>>, <<v>>, dll_push(dll, v))

ListPushFront ==
    /\ ListReady(1)
    /\ \E v \in Values :
          ListCall("push_front", <<>>, <<v>>, push_front(dll, v))

ListMultiPush ==
    \E values \in SeqsUpTo(Values, MaxBatch) :
       /\ ListReady(Len(values))
       /\ ListCall("multi_push", <<>>, values, multi_push(dll, values))

ListMultiPushFront ==
    \E values \in SeqsUpTo(Values, MaxBatch) :
       /\ ListReady(Len(values))
       /\ ListCall("multi_push_front", <<>>, values,
                   multi_push_front(dll, values))

ListInsert ==
    /\ ListReady(1)
    /\ \E index \in Indices, v \in Values :
          ListCall("insert", <<index>>, <<v>>, dll_insert(dll, index, v))

ListInsertLeft ==
    /\ ListReady(1)
    /\ \E view \in Views, v \in Values :
          ListCall("insert_left", <<view>>, <<v>>, insert_left(dll, view, v))

ListInsertRight ==
    /\ ListReady(1)
    /\ \E view \in Views, v \in Values :
          ListCall("insert_right", <<view>>, <<v>>,
                   insert_right(dll, view, v))

ListMultiInsert ==
    \E pairs \in SeqsUpTo(Indices \X Values, MaxBatch) :
       /\ ListReady(Len(pairs))
       /\ ListCall("multi_insert", <<>>, pairs, multi_insert(dll, pairs))

\* multi_insert of one value at positions inside the list.
ListMultiInsertInRange ==
    \E indexes \in SeqsUpTo(0..(len(dll) - 1), MaxBatch), v \in Values :
       LET pairs == [i \in DOMAIN indexes |-> <<indexes[i], v>>]
       IN  /\ ListReady(Len(pairs))
           /\ ListCall("multi_insert", <<>>, pairs, multi_insert(dll, pairs))

ListSwap ==
    /\ ListReady(0)
    /\ \E view1 \in Views, view2 \in Views :
          ListCall("swap", <<view1, view2>>, <<>>,
                   dll_swap(dll, view1, view2))

ListInnerSwap ==
    /\ ListReady(0)
    /\ \E view1 \in Views, view2 \in Views :
          ListCall("inner_swap", <<view1, view2>>, <<>>,
                   inner_swap(dll, view1, view2))

ListPop ==
    /\ ListReady(0)
    /\ ListCall("pop", <<>>, <<>>, pop(dll))

\* Every method that changes the list.
NextList ==
    \/ ListPush
    \/ ListPushFront
    \/ ListMultiPush
    \/ ListMultiPushFront
    \/ ListInsert
    \/ ListInsertLeft
    \/ ListInsertRight
    \/ ListMultiInsert
    \/ ListSwap
    \/ ListInnerSwap
    \/ ListPop

SpecList == Init /\ [][NextList]_vars

\* Lists built by push, push_front, insert, swap and pop.
NextListPop ==
    \/ ListPush
    \/ ListPushFront
    \/ ListInsert
    \/ ListSwap
    \/ ListPop

SpecListPop == Init /\ [][NextListPop]_vars

\* Lists built by push, push_front, insert and pop.
NextListOrder ==
    \/ ListPush
    \/ ListPushFront
    \/ ListInsert
    \/ ListPop

SpecListOrder == Init /\ [][NextListOrder]_vars


\* Lists built by push, push_front, insert, swap and pop, and multi_push.
NextListMultiPush ==
    \/ ListPush
    \/ ListPushFront
    \/ ListInsert
    \/ ListSwap
    \/ ListPop
    \/ ListMultiPush

SpecListMultiPush == Init /\ [][NextListMultiPush]_vars

ListMultiGetView ==
    /\ ListReady(0)
    /\ \E indexes \in SeqsUpTo(Indices, MaxBatch) :
          ListCall("multi_get_view", indexes, <<>>,
                   multi_get_view(dll, indexes))

\* Lists built by push, multi_push_front and pop, and multi_get_view on
\* them.
NextListGetView ==
    \/ ListPush
    \/ ListMultiPushFront
    \/ ListPop
    \/ ListMultiGetView

SpecListGetView == Init /\ [][NextListGetView]_vars

\* Lists built by the methods that move no node in the store and remove none
\* but the last: push, push_front, insert, insert_left, insert_right,
\* multi_insert, swap and pop.
NextListViews ==
    \/ ListPush
    \/ ListPushFront
    \/ ListInsert
    \/ ListInsertLeft
    \/ ListInsertRight
    \/ ListMultiInsertInRange
    \/ ListSwap
    \/ ListPop

SpecListViews == Init /\ [][NextListViews]_vars

\* Lists built by push, push_front, insert, swap, inner_swap and pop.
NextListInnerSwap ==
    \/ ListPush
    \/ ListPushFront
    \/ ListInsert
    \/ ListSwap
    \/ ListInnerSwap
    \/ ListPop

SpecListInnerSwap == Init /\ [][NextListInnerSwap]_vars

ListGet ==
    /\ ListReady(0)
    /\ \E index \in Indices :
          ListCall("get", <<index>>, <<>>,
                   ListResult(dll, dll_get(dll, index), None,
                              dll_get(dll, index) # None, FALSE))

ListGetMut ==
    /\ ListReady(0)
    /\ \E index \in Indices :
          ListCall("get_mut", <<index>>, <<>>,
                   ListResult(dll, dll_get_mut(dll, index), None,
                              dll_get_mut(dll, index) # None, FALSE))

ListGetView ==
    /\ ListReady(0)
    /\ \E index \in Indices :
          ListCall("get_view", <<index>>, <<>>,
                   ListResult(dll, None, get_view(dll, index),
                              get_view(dll, index) # None, FALSE))

\* Lists built by push, push_front, multi_push_front, insert and pop, and
\* the reads by position on them.
NextListPositions ==
    \/ ListPush
    \/ ListPushFront
    \/ ListMultiPushFront
    \/ ListInsert
    \/ ListPop
    \/ ListGet
    \/ ListGetMut
    \/ ListGetView

SpecListPositions == Init /\ [][NextListPositions]_vars

ListGetLeftNeighbour ==
    /\ ListReady(0)
    /\ \E view \in Views, n \in 0..MaxSlots :
          ListCall("get_left_neighbour", <<view, n>>, <<>>,
                   ListResult(dll, None, get_left_neighbour(dll, view, n),
                              get_left_neighbour(dll, view, n) # None, FALSE))

ListGetRightNeighbour ==
    /\ ListReady(0)
    /\ \E view \in Views, n \in 0..MaxSlots :
          ListCall("get_right_neighbour", <<view, n>>, <<>>,
                   ListResult(dll, None, get_right_neighbour(dll, view, n),
                              get_right_neighbour(dll, view, n) # None, FALSE))

\* Lists built by push, push_front, insert, swap and pop, and the walks to
\* a neighbour on them.
NextListNeighbours ==
    \/ ListPush
    \/ ListPushFront
    \/ ListInsert
    \/ ListSwap
    \/ ListPop
    \/ ListGetLeftNeighbour
    \/ ListGetRightNeighbour

SpecListNeighbours == Init /\ [][NextListNeighbours]_vars

\* The longest list reuse_insert_left is called to build: on shorter ones
\* no position is nearer to the last insertion than to both ends.
MaxNodes == 5

\* push on lists of fewer than MaxNodes nodes.
ListPushLong ==
    /\ ~dll_last.panic
    /\ dll_last.calls < MaxCalls
    /\ len(dll) < MaxNodes
    /\ \E v \in Values : ListCall("push", <<>>, <<v>>, dll_push(dll, v))

\* reuse_insert_left with the view the call before returned (the last
\* insertion) and the logical position of its node, and a position up to
\* one past the length.
ListReuseInsertLeft ==
    /\ ~dll_last.panic
    /\ dll_last.calls < MaxCalls
    /\ len(dll) < MaxNodes
    /\ dll_last.op \in {"push", "reuse_insert_left"}
    /\ dll_last.ret_some
    /\ LET view == dll_last.ret_view[1]
           q == position(dll, view)[1]
       IN  \E p \in 0..(len(dll) + 1), v \in Values :
              ListCall("reuse_insert_left", <<q, view, p>>, <<v>>,
                       reuse_insert_left(dll, q, view, p, v))

\* Lists built by push, pop and reuse_insert_left.
NextListReuse ==
    \/ ListPushLong
    \/ ListPop
    \/ ListReuseInsertLeft

SpecListReuse == Init /\ [][NextListReuse]_vars

\* DoubleLinkedList::from(values): the list is a new one, so the list before
\* the call is DoubleLinkedList::new with the values not yet pushed.
ListFromVec ==
    /\ dll_last.calls < MaxCalls
    /\ \E values \in SeqsUpTo(Values, MaxNodes) :
          /\ dll' = from_vec(values).list
          /\ dll_last' = [op |-> "from", args |-> <<>>, vals |-> values,
                          ret_val |-> None, ret_view |-> None,
                          ret_some |-> TRUE,
                          panic |-> from_vec(values).panic,
                          list0 |-> DoubleLinkedList_new,
                          calls |-> dll_last.calls + 1]
          /\ UNCHANGED <<store, open_indices, panicked, last, net_pushes,
                         callbacks, alive, alive_last>>

\* Vec::from(list): the list is consumed, so the call follows the one that
\* made the list.
ListIntoVec ==
    /\ dll_last.calls < MaxCalls
    /\ ~dll_last.panic
    /\ dll_last.op # "into_vec"
    /\ ListCall("into_vec", <<>>, <<>>, into_vec(dll))

\* The conversions between a Vec and a list.
NextListConversion ==
    \/ ListFromVec
    \/ ListIntoVec

SpecListConversion == Init /\ [][NextListConversion]_vars

ListMultiGet ==
    /\ ListReady(0)
    /\ \E indexes \in SeqsUpTo(Indices, MaxBatch) :
          ListCall("multi_get", indexes, <<>>, multi_get(dll, indexes))

\* Lists built by push and pop, and the batched methods on them.
NextListBatch ==
    \/ ListPush
    \/ ListPop
    \/ ListMultiInsert
    \/ ListMultiGetView
    \/ ListMultiGet

SpecListBatch == Init /\ [][NextListBatch]_vars

ListPeekView ==
    /\ ListReady(0)
    /\ \E view \in Views :
          ListCall("peek_view", <<view>>, <<>>,
                   ListResult(dll, peek_view(dll, view), None,
                              peek_view(dll, view) # None, FALSE))

\* peek_view_mut: the value the returned reference points at.
ListPeekViewMut ==
    /\ ListReady(0)
    /\ \E view \in Views :
          ListCall("peek_view_mut", <<view>>, <<>>,
                   ListResult(dll, peek_view(dll, view), None,
                              peek_view(dll, view) # None, FALSE))

\* Lists built by push, push_front and pop, and the methods that take a
\* view on them.
NextListStale ==
    \/ ListPush
    \/ ListPushFront
    \/ ListPop
    \/ ListPeekView
    \/ ListPeekViewMut
    \/ ListInsertLeft
    \/ ListInsertRight
    \/ ListSwap
    \/ ListInnerSwap
    \/ ListGetLeftNeighbour
    \/ ListGetRightNeighbour

SpecListStale == Init /\ [][NextListStale]_vars

\* multi_insert of one value at positions inside the list and at the first
\* position past its end.
ListMultiInsertAnywhere ==
    \E indexes \in SeqsUpTo(0..len(dll), MaxBatch), v \in Values :
       LET pairs == [i \in DOMAIN indexes |-> <<indexes[i], v>>]
       IN  /\ ListReady(Len(pairs))
           /\ ListCall("multi_insert", <<>>, pairs, multi_insert(dll, pairs))

\* Lists built by push, push_front, pop and multi_insert.
NextListAnchors ==
    \/ ListPush
    \/ ListPushFront
    \/ ListPop
    \/ ListMultiInsertAnywhere

SpecListAnchors == Init /\ [][NextListAnchors]_vars

\* The pool before the last call.
pool0 == ValuePool(last.store0, last.open0)

----------------------------------------------------------------------------
\* The contracts of the arena, each a statement about the last call.

\* The position the last call was given (calls that take one position).
ref0 == last.arg[1]

\* C1: push always succeeds: after any sequence of push, remove, take, swap
\* and clear, push(v) completes without failing and returns a position that
\* is inside the backing storage.
C1_PushAlwaysSucceeds ==
    /\ ~panicked
    /\ last.op = "push" =>
          /\ Len(last.ret_ref) = 1
          /\ last.ret_ref[1] < Len(store)

\* C2: after any interleaving of push, remove and take, element_count()
\* equals the pushes performed minus the removes/takes that removed a value.
C2_ElementCount == element_count(pool) = net_pushes

\* A take that returned a value, with an earlier freed position still waiting
\* and a value still stored.
C2_Witness ==
    /\ last.op = "take"
    /\ last.ret_val # None
    /\ last.open0 # <<>>
    /\ net_pushes >= 1

\* C3: get(push(v)) returns Some(v) immediately after the push, in every
\* reachable state and for every value v.
C3_PushGetRoundTrip ==
    last.op = "push" =>
        /\ Len(last.ret_ref) = 1
        /\ get(pool, last.ret_ref[1]) = last.val

\* C4: when free positions exist, push reuses (returns) the most recently
\* freed position.
C4_PushReusesLastFreed ==
    (last.op = "push" /\ last.open0 # <<>>) =>
        last.ret_ref = <<Last(last.open0)>>

\* take(r) returned Some exactly when r was occupied, returned what was
\* stored there, and r is empty afterwards.
TakeOncePerOccupancy ==
    last.op = "take" =>
        /\ last.ret_val = get(pool0, ref0)
        /\ ~has_item(pool, ref0)

\* C5: take(r) returns Some(value) exactly once per occupancy of r; take(r)
\* again right after a take(r) that returned Some returns None and changes
\* nothing.
C5_TakeIdempotent ==
    [][/\ TakeOncePerOccupancy'
       /\ (/\ last.op = "take"
           /\ last.ret_val # None
           /\ last'.op = "take"
           /\ last'.arg = last.arg)
          => /\ last'.ret_val = None
             /\ store' = store
             /\ open_indices' = open_indices]_vars

\* take(r) on the in-range position that was freed last returned None and
\* left the pool as it was.
C5_Witness ==
    /\ last.op = "take"
    /\ last.ret_val = None
    /\ ref0 < Len(store)
    /\ open_indices # <<>>
    /\ Last(open_indices) = ref0
    /\ store = last.store0
    /\ open_indices = last.open0

\* C6: remove on the occupied slot at the highest position reduces the number
\* of slots by one and leaves the free positions as they were; remove on any
\* other occupied slot keeps the number of slots and increases
\* waiting_positions by one.
C6_TrailingRemovalShrinks ==
    (last.op = "remove" /\ has_item(pool0, ref0)) =>
        IF ref0 + 1 = Len(last.store0)
        THEN /\ Len(store) = Len(last.store0) - 1
             /\ open_indices = last.open0
        ELSE /\ Len(store) = Len(last.store0)
             /\ waiting_positions(pool) = waiting_positions(pool0) + 1

\* remove of the occupied trailing slot of a store with free positions.
C6_Witness ==
    /\ last.op = "remove"
    /\ has_item(pool0, ref0)
    /\ ref0 + 1 = Len(last.store0)
    /\ last.open0 # <<>>

\* The pool remove(ref0) would have left, from the pool before the last call.
removed0 ==
    ValuePool(remove(pool0, ref0).store, remove(pool0, ref0).open_indices)

\* C7 as stated: take(index) leaves the arena in the state (slots, free
\* positions, next_push_ref) that remove(index) would leave it in.
C7_TakeLikeRemove ==
    last.op = "take" =>
        /\ pool = removed0
        /\ next_push_ref(pool) = next_push_ref(removed0)

\* C7 as the code has it: take(index) returns what was stored at index and
\* leaves the arena as remove(index) would, except on the occupied trailing
\* slot, where take keeps the slot (now empty) and appends its position to the
\* free positions, so that next_push_ref is that position.
C7_TakeLikeRemoveUnlessTrailing ==
    last.op = "take" =>
        /\ last.ret_val = get(pool0, ref0)
        /\ IF has_item(pool0, ref0) /\ ref0 + 1 = Len(last.store0)
           THEN /\ store = [last.store0 EXCEPT ![ref0 + 1] = None]
                /\ open_indices = Append(last.open0, ref0)
                /\ next_push_ref(pool) = ref0
           ELSE /\ pool = removed0
                /\ next_push_ref(pool) = next_push_ref(removed0)

\* take of the occupied trailing slot.
C7_Witness ==
    /\ last.op = "take"
    /\ last.ret_val # None
    /\ ref0 + 1 = Len(last.store0)

\* C8: the position push(v) returns is the position next_push_ref() gave
\* immediately before that push.
C8_NextPushRefPredictsPush ==
    last.op = "push" => last.ret_ref = <<next_push_ref(pool0)>>

\* C9: get, get_mut, has_item, take and remove on an out-of-range or empty
\* position do not fail, return nothing/false, and leave the slots and the
\* free positions unchanged.
C9_BadPositionIsNoOp ==
    (/\ last.op \in {"get", "get_mut", "has_item", "take", "remove"}
     /\ ~has_item(pool0, ref0))
    => /\ ~panicked
       /\ last.ret_val = None
       /\ last.ret_bool = FALSE
       /\ store = last.store0
       /\ open_indices = last.open0

\* take on an in-range empty slot of a pool that still stores a value.
C9_Witness ==
    /\ last.op = "take"
    /\ ref0 < Len(last.store0)
    /\ ~has_item(pool0, ref0)
    /\ element_count(pool) >= 1

\* C10: swap(i, j) with a position outside the storage returns None and
\* changes nothing; otherwise slots i and j exchange their contents, every
\* other slot is unchanged, and the returned (n_i, n_j) has
\* get(n_i) = old get(i) and get(n_j) = old get(j).
C10_Swap ==
    last.op = "swap" =>
        LET i == last.arg[1]
            j == last.arg[2]
        IN IF i >= Len(last.store0) \/ j >= Len(last.store0)
           THEN /\ last.ret_ref = <<>>
                /\ pool = pool0
           ELSE /\ Len(store) = Len(last.store0)
                /\ store[i + 1] = last.store0[j + 1]
                /\ store[j + 1] = last.store0[i + 1]
                /\ \A k \in 1..Len(store) :
                      k \notin {i + 1, j + 1} => store[k] = last.store0[k]
                /\ Len(last.ret_ref) = 2
                /\ get(pool, last.ret_ref[1]) = get(pool0, i)
                /\ get(pool, last.ret_ref[2]) = get(pool0, j)

\* swap of two different occupied slots holding different values, with a
\* third slot beside them.
C10_Witness ==
    /\ last.op = "swap"
    /\ Len(last.ret_ref) = 2
    /\ Len(store) >= 3
    /\ has_item(pool0, last.arg[1])
    /\ has_item(pool0, last.arg[2])
    /\ get(pool0, last.arg[1]) # get(pool0, last.arg[2])

C12_RemoveFullNeverPanics ==
    last.op = "remove_full" => ~panicked


\* C13: smart_push invokes the on_empty_push callback exactly when that push
\* changes element_count from 0 to 1, once, and on no other smart_push.
C13_OnEmptyPush ==
    last.op = "smart_push" =>
       IF element_count(pool0) = 0 /\ element_count(pool) = 1
       THEN callbacks = <<"on_empty_push">>
       ELSE callbacks = <<>>

\* C14: smart_remove and smart_take invoke the on_empty callback exactly
\* when that call changes element_count from 1 to 0; a call that removes
\* nothing does not invoke it.
C14_OnEmpty ==
    last.op \in {"smart_remove", "smart_take"} =>
       IF element_count(pool0) = 1 /\ element_count(pool) = 0
       THEN callbacks = <<"on_empty">>
       ELSE callbacks = <<>>

\* The entry, the live handles and the counter of the position the last
\* call of the AliveValuePool was given, before that call.
entry0 == alive_last.alive0.store[alive_last.idx + 1]

\* C15: AliveValuePool::take(handle) returns the stored value only when the
\* handle is the sole live handle of its entry; while another clone is alive
\* it returns None, the entry stays stored and its counter drops by one.
C15_AliveTake ==
    alive_last.op = "take" =>
       LET n0 == alive_last.alive0.handles[alive_last.idx + 1].n
           now == alive.store[alive_last.idx + 1]
       IN  /\ alive_last.ret_val # None =>
                 /\ n0 = 1
                 /\ alive_last.ret_val = Some(entry0[1].value)
           /\ n0 > 1 =>
                 /\ alive_last.ret_val = None
                 /\ now # None
                 /\ now[1].value = entry0[1].value
                 /\ now[1].active_references =
                       entry0[1].active_references - 1

----------------------------------------------------------------------------
\* The contracts of the list, each a statement about the last call.

\* The list before the last call, drained head to tail, and the list now.
items0 == iter(dll_last.list0).items

items == iter(dll).items

\* Vec::insert(index, v) on a plain array.
array_insert(s, index, v) ==
    SubSeq(s, 1, index) \o <<v>> \o SubSeq(s, index + 1, Len(s))

\* What the last call does to a plain array holding items0: append,
\* prepend, positional insert, remove last.
array_after ==
    CASE dll_last.op = "push" -> Append(items0, dll_last.vals[1])
      [] dll_last.op = "push_front" -> <<dll_last.vals[1]>> \o items0
      [] dll_last.op = "insert" ->
            array_insert(items0, dll_last.args[1], dll_last.vals[1])
      [] dll_last.op = "pop" ->
            IF items0 = <<>> THEN items0 ELSE Front(items0)
      [] OTHER -> items0

\* C16: for any sequence of push, push_front, insert(position, value) with
\* position < length, and pop, draining the list head to tail yields the
\* sequence a plain array yields under the same operations: every such call
\* does to the drained list what it does to the array.
C16_ListOrder ==
    (\/ dll_last.op \in {"push", "push_front", "pop"}
     \/ dll_last.op = "insert" /\ dll_last.args[1] < len(dll_last.list0))
       => items = array_after

\* C17: on every non-empty list built by push, push_front, insert, swap and
\* pop, pop returns the value of the logical last element and the length
\* drops by one; pop returns None only when the list is empty.
C17_Pop ==
    dll_last.op = "pop" =>
       IF len(dll_last.list0) = 0
       THEN dll_last.ret_val = None
       ELSE /\ dll_last.ret_val = Some(Last(items0))
            /\ len(dll) = len(dll_last.list0) - 1

\* The positions of the store that hold a node.
Nodes == {r \in 0..(Len(dll.store) - 1) : node(dll, r) # None}

\* The link invariant of a list that holds nodes.
LinkInvariant ==
    /\ {r \in Nodes : node(dll, r)[1].prev = None} = {dll.start}
    /\ {r \in Nodes : node(dll, r)[1].next = None} = {dll.end}
    /\ \A r \in Nodes :
          LET n == node(dll, r)[1]
          IN  /\ n.prev # None =>
                    /\ node(dll, n.prev[1]) # None
                    /\ node(dll, n.prev[1])[1].next = Some(r)
              /\ n.next # None =>
                    /\ node(dll, n.next[1]) # None
                    /\ node(dll, n.next[1])[1].prev = Some(r)

\* C18: after every list operation that changes the list and leaves nodes
\* in it, exactly one node has prev = None and it is the node at start,
\* exactly one node has next = None and it is the node at end, and the prev
\* and next of every node point at nodes that point back.
C18_LinkInvariant ==
    dll_last.op # "new" /\ Nodes # {} => LinkInvariant

\* C19: for every i below the length get(i) is the i-th value of the forward
\* iteration and the (length - 1 - i)-th value of the reverse iteration;
\* get(length) is None.
C19_GetSymmetry ==
    /\ \A i \in 0..(len(dll) - 1) :
          /\ Len(iter(dll).items) > i
          /\ dll_get(dll, i) = Some(iter(dll).items[i + 1])
          /\ Len(iter_reverse(dll).items) >= len(dll) - i
          /\ dll_get(dll, i) = Some(iter_reverse(dll).items[len(dll) - i])
    /\ dll_get(dll, len(dll)) = None

\* insert(position, value) for the pairs one at a time, in their order.
RECURSIVE insert_each(_, _)
insert_each(l, pairs) ==
    IF pairs = <<>> THEN l
    ELSE insert_each(dll_insert(l, Head(pairs)[1], Head(pairs)[2]).list,
                     Tail(pairs))

\* C20: on a non-empty list multi_insert over a sequence of (position,
\* value) pairs leaves the element order that insert(position, value) for
\* the same pairs, one at a time in the same order, leaves.
C20_MultiInsert ==
    dll_last.op = "multi_insert" /\ len(dll_last.list0) > 0 =>
       /\ ~dll_last.panic
       /\ items = iter(insert_each(dll_last.list0, dll_last.vals)).items

\* push(value) for the values one at a time, in their order; a panic ends
\* the calls.
RECURSIVE push_each(_, _)
push_each(l, values) ==
    IF values = <<>> THEN ListResult(l, None, None, TRUE, FALSE)
    ELSE LET res == dll_push(l, Head(values))
         IN  IF res.panic THEN res ELSE push_each(res.list, Tail(values))

\* C21: for every list, empty or not, and every finite sequence of values
\* multi_push(values) yields the list that push for each value in order
\* yields: the same store, start and end, hence the same element order and
\* the same end element; the one panics only when the other does.
C21_MultiPush ==
    dll_last.op = "multi_push" =>
       LET each == push_each(dll_last.list0, dll_last.vals)
       IN  /\ dll_last.panic = each.panic
           /\ ~dll_last.panic => dll = each.list

\* multi_push has appended two values to a list that held nodes.
C21_Witness ==
    /\ dll_last.op = "multi_push"
    /\ ~dll_last.panic
    /\ len(dll_last.list0) > 0
    /\ Len(dll_last.vals) = 2
    /\ items = items0 \o dll_last.vals

\* push_front(value) for the values one at a time, in their order; a panic
\* ends the calls.
RECURSIVE push_front_each(_, _)
push_front_each(l, values) ==
    IF values = <<>> THEN ListResult(l, None, None, TRUE, FALSE)
    ELSE LET res == push_front(l, Head(values))
         IN  IF res.panic THEN res ELSE push_front_each(res.list, Tail(values))

\* C22: for every list, empty or not, and every finite sequence of values
\* multi_push_front(values) yields the head-to-tail element sequence that
\* push_front for each value in order yields, and panics only when those
\* calls do. (It does on every list whose links are sound.)
C22_MultiPushFront ==
    dll_last.op = "multi_push_front" =>
       LET each == push_front_each(dll_last.list0, dll_last.vals)
       IN  /\ dll_last.panic = each.panic
           /\ ~dll_last.panic => items = iter(each.list).items


\* get_view(position) for the positions one at a time, in their order.
RECURSIVE get_view_each(_, _)
get_view_each(l, indexes) ==
    IF indexes = <<>> THEN <<>>
    ELSE get_view(l, Head(indexes)) \o get_view_each(l, Tail(indexes))

\* C23: for every non-empty list and every sequence of in-range positions
\* multi_get_view returns, in input order, exactly the views that get_view
\* returns for each position.
C23_MultiGetView ==
    (/\ dll_last.op = "multi_get_view"
     /\ len(dll_last.list0) > 0
     /\ \A i \in DOMAIN dll_last.args : dll_last.args[i] < len(dll_last.list0))
       => /\ dll_last.ret_some
          /\ dll_last.ret_view = get_view_each(dll_last.list0, dll_last.args)

Reverse(s) == [i \in DOMAIN s |-> s[Len(s) + 1 - i]]

\* The views the last call was given name nodes of the list.
valid_views ==
    \A i \in DOMAIN dll_last.args : node(dll_last.list0, dll_last.args[i]) # None

\* The order with the nodes x and y exchanged.
exchanged(s, x, y) ==
    [i \in DOMAIN s |-> IF s[i] = x THEN y ELSE IF s[i] = y THEN x ELSE s[i]]

\* The value held by every position of the store, None for a free one.
values_of(l) ==
    [r \in 0..(Len(l.store) - 1) |->
        IF node(l, r) = None THEN None ELSE Some(node(l, r)[1].value)]

C26_ViewValidity ==
    /\ (/\ dll_last.op \in {"push", "push_front", "insert", "insert_left",
                            "insert_right"}
        /\ dll_last.ret_some)
          => /\ dll_last.ret_view # None
             /\ peek_view(dll_last.list0, dll_last.ret_view[1]) = None
             /\ peek_view(dll, dll_last.ret_view[1]) = Some(dll_last.vals[1])
    /\ \A view \in 0..(Len(dll_last.list0.store) - 1) :
          (/\ peek_view(dll_last.list0, view) # None
           /\ ~(dll_last.op = "pop" /\ view = dll_last.list0.end))
             => peek_view(dll, view) = peek_view(dll_last.list0, view)

\* multi_insert has put two values in front of a node that holds b: the view
\* of the node yields b as before, two logical positions further on.
C26_Witness ==
    /\ dll_last.op = "multi_insert"
    /\ dll_last.ret_some
    /\ Len(dll_last.vals) = 2
    /\ \E view \in Views :
          /\ peek_view(dll_last.list0, view) = Some("b")
          /\ peek_view(dll, view) = Some("b")
          /\ position(dll_last.list0, view) = Some(0)
          /\ position(dll, view) = Some(2)

C29_OutOfRange ==
    (/\ dll_last.op \in {"get", "get_mut", "get_view", "insert"}
     /\ dll_last.args[1] >= len(dll_last.list0))
       => /\ ~dll_last.panic
          /\ ~dll_last.ret_some
          /\ dll_last.ret_val = None
          /\ dll_last.ret_view = None
          /\ dll = dll_last.list0

\* insert was called with the length of a list of two nodes as position.
C29_Witness ==
    /\ dll_last.op = "insert"
    /\ len(dll_last.list0) = 2
    /\ dll_last.args[1] = 2
    /\ ~dll_last.ret_some
    /\ items = items0
    /\ Len(items) = 2

C32_RoundTrip ==
    /\ dll_last.op = "from" =>
          /\ ~dll_last.panic
          /\ into_vec(dll).ret_val = dll_last.vals
          /\ len(into_vec(dll).list) = 0
    /\ dll_last.op = "into_vec" =>
          \A s \in SeqsUpTo(Values, MaxNodes) :
             dll_last.list0 = from_vec(s).list =>
                /\ dll_last.ret_val = s
                /\ ~dll_last.panic
                /\ len(dll) = 0

\* The list made from (a, b, a) has been drained into (a, b, a).
C32_Witness ==
    /\ dll_last.op = "into_vec"
    /\ dll_last.list0 = from_vec(<<"a", "b", "a">>).list
    /\ dll_last.ret_val = <<"a", "b", "a">>
    /\ len(dll) = 0
    /\ Len(dll.store) = 3

\* C33: multi_insert, multi_get_view and multi_get called on a list of
\* length 0 do not fail: they skip every position as out of range and
\* return a result that is not a failure, with the list unchanged.
C33_BatchedOnEmpty ==
    (/\ dll_last.op \in {"multi_insert", "multi_get_view", "multi_get"}
     /\ len(dll_last.list0) = 0)
       => /\ ~dll_last.panic
          /\ dll_last.ret_some
          /\ dll_last.ret_val = None
          /\ dll_last.ret_view = None
          /\ dll = dll_last.list0

\* The last call was given a view whose node has been removed and whose
\* position in the store has not been used again.
stale_view ==
    \/ /\ dll_last.op \in {"peek_view", "peek_view_mut", "insert_left",
                           "insert_right", "get_left_neighbour",
                           "get_right_neighbour"}
       /\ node(dll_last.list0, dll_last.args[1]) = None
    \/ /\ dll_last.op \in {"swap", "inner_swap"}
       /\ \/ node(dll_last.list0, dll_last.args[1]) = None
          \/ node(dll_last.list0, dll_last.args[2]) = None

\* C34: given a view whose node has been removed and whose slot has not
\* been reused, peek_view, peek_view_mut, insert_left, insert_right, swap,
\* inner_swap, and get_left_neighbour and get_right_neighbour for every n,
\* 0 included, return nothing and leave the list unchanged.
C34_StaleViews ==
    stale_view =>
       /\ ~dll_last.panic
       /\ ~dll_last.ret_some
       /\ dll_last.ret_val = None
       /\ dll_last.ret_view = None
       /\ dll = dll_last.list0

\* The positions of the store that hold a node.
occupied(l) == {i \in 0..(Len(l.store) - 1) : node(l, i) # None}

\* C35: in every reachable state where the list holds zero elements,
\* start and end both equal the sentinel position 0, and the elements that
\* push, push_front, multi_push or multi_push_front add to such a list are
\* all reachable from start; a single added element is the node at end.
C35_EmptyList ==
    /\ len(dll) = 0 => (dll.start = 0 /\ dll.end = 0)
    /\ (/\ dll_last.op \in {"push", "push_front", "multi_push",
                            "multi_push_front"}
        /\ len(dll_last.list0) = 0
        /\ dll_last.vals # <<>>)
          => /\ ~dll_last.panic
             /\ len(dll) = Len(dll_last.vals)
             /\ {order(dll)[i] : i \in DOMAIN order(dll)} = occupied(dll)
             /\ Len(dll_last.vals) = 1 =>
                   (node(dll, dll.end) # None /\ order(dll) = <<dll.end>>)

\* The loop heads of the last call, a multi_insert that got past the
\* construction of store_index_views.
anchor_heads ==
    multi_insert_heads(dll_last.list0,
       tree_insert(tree_insert(<<>>, 0, dll_last.list0.start),
                   len(dll_last.list0) - 1, dll_last.list0.end),
       dll_last.vals)

occupied_slots == {i \in 0..(Len(store) - 1) : store[i + 1] # None}

\* C37: in every arena state reachable by push, remove, take, swap and
\* clear the list of free positions has no duplicates, every free position
\* is inside the backing storage, the free positions are exactly the empty
\* slots, and element_count() is the number of occupied slots.
C37_FreeList ==
    ~panicked =>
       /\ \A i, j \in DOMAIN open_indices :
             i # j => open_indices[i] # open_indices[j]
       /\ \A i \in DOMAIN open_indices : open_indices[i] < Len(store)
       /\ {open_indices[i] : i \in DOMAIN open_indices}
             = (0..(Len(store) - 1)) \ occupied_slots
       /\ element_count(pool) = Cardinality(occupied_slots)

\* C38: in every state reachable by push, remove, take, swap and clear,
\* push changes only the slot at the position it returns, and that slot
\* was empty or is newly appended: no stored value is overwritten.
C38_PushNoOverwrite ==
    (last.op = "push" /\ ~panicked) =>
       LET r == last.ret_ref[1]
       IN  /\ Len(last.ret_ref) = 1
           /\ \/ r = Len(last.store0) /\ Len(store) = Len(last.store0) + 1
              \/ /\ r < Len(last.store0)
                 /\ last.store0[r + 1] = None
                 /\ Len(store) = Len(last.store0)
           /\ \A k \in 1..Len(last.store0) :
                 k # r + 1 => store[k] = last.store0[k]

\* The nodes met from start by following next until a node has none (or,
\* on a chain that does not end, until every slot could have been met).
chain == walk(dll, Some(dll.start), Len(dll.store) + 1, "next")

\* C39: in every reachable list state len() equals the number of nodes met
\* by following next from start until next is None, the walk ends at the
\* node at end, and every occupied slot of the store is met.
C39_NoLostNodes ==
    ~dll_last.panic =>
       /\ Len(chain) = len(dll)
       /\ chain # <<>> => chain[Len(chain)] = dll.end
       /\ {chain[i] : i \in DOMAIN chain} = occupied(dll)

\* C40: for every arena state and every position i inside the backing
\* storage, remove_full(i) decreases element_count() by exactly one when it
\* returns a value and leaves it unchanged when it returns nothing, and
\* afterwards every free position is inside the backing storage.
C40_RemoveFullCount ==
    (last.op = "remove_full" /\ ref0 < Len(last.store0)) =>
       /\ ~panicked
       /\ element_count(pool) =
             IF last.ret_val # None THEN element_count(pool0) - 1
             ELSE element_count(pool0)
       /\ \A i \in DOMAIN open_indices : open_indices[i] < Len(store)
====
